---- MODULE Spec2Model ----
(***************************************************************************)
(* A model of fastai/conv_learner.py: the ConvnetBuilder that assembles a  *)
(* truncated backbone, a pooling adapter and a fully connected head, and   *)
(* the ConvLearner that selects loss and metrics, switches between the     *)
(* precompute and the normal mode, and caches backbone activations in      *)
(* on-disk arrays.                                                          *)
(*                                                                         *)
(* Floats are modelled as integer percentages (0.25 is 25).  A module of   *)
(* a network is a record [kind, a, b]; a and b carry the module's          *)
(* parameters (BatchNorm1d: a = num_features; Dropout: a = p; Linear:      *)
(* a = in_features, b = out_features; a backbone child: a = its index).    *)
(***************************************************************************)
EXTENDS Integers, Sequences, FiniteSets, TLC

VARIABLES
  args,        \* the arguments ConvnetBuilder was called with
  bpc,         \* position of the builder: "new", "built", "IndexError"
  models,      \* the ConvnetBuilder object
  lgs,         \* the last result of ConvnetBuilder.get_layer_groups
  pc,          \* position of the learner session
  req,         \* the arguments of ConvLearner.__init__ while it runs
  precompute,  \* ConvLearner.precompute
  data_,       \* Learner.data_
  fc_data,     \* ConvLearner.fc_data
  crit,        \* ConvLearner.crit
  metrics,     \* Learner.metrics
  activations, \* ConvLearner.activations: the key of the opened arrays
  trainable,   \* positions of the full model whose parameters are trainable
  disk,        \* the on-disk arrays under tmp_path, by key
  last         \* what the last operation did

vars == <<args, bpc, models, lgs, pc, req, precompute, data_, fc_data, crit,
          metrics, activations, trainable, disk, last>>

builderVars == <<args, bpc, models, lgs>>
learnerVars == <<pc, req, precompute, data_, fc_data, crit, metrics,
                 activations, trainable, disk, last>>

----------------------------------------------------------------------------
(* Bounds of the model *)

MaxChildren == 11   \* most children of an untruncated backbone
MaxXtraCut == 1     \* largest xtra_cut tried
MaxClasses == 2     \* largest output size c tried
MaxTrn == 1         \* most examples in a train partition
MaxTest == 1        \* most examples in a test partition

\* f(True) is torchvision code: the number of its children and the width
\* num_features finds in the truncated backbone are inputs
ChildCounts == 10..MaxChildren
InferredWidths == {512, 2048}
Classes == 1..MaxClasses

----------------------------------------------------------------------------
(* The architecture registry *)

Resnets == {"resnet18", "resnet34", "resnet50", "resnet101", "resnext50",
            "resnext101", "resnext101_64", "wrn"}
Densenets == {"dn121", "dn161", "dn169", "dn201"}
Backbones == Resnets \cup Densenets \cup {"vgg16", "inceptionresnet_2", "inception_4"}

model_meta ==
  [f \in Backbones |->
     CASE f \in Resnets -> <<8, 6>>
       [] f = "vgg16" -> <<0, 22>>
       [] f = "inceptionresnet_2" -> <<-2, 9>>
       [] f = "inception_4" -> <<-1, 9>>
       [] f \in Densenets -> <<0, 6>>]

model_features ==
  [f \in {"inception_4", "dn121", "dn161"} |->
     CASE f = "inception_4" -> 3072
       [] f = "dn121" -> 1024
       [] f = "dn161" -> 4416]

----------------------------------------------------------------------------
(* Python helpers *)

Layer(kind, a, b) == [kind |-> kind, a |-> a, b |-> b]

Min(x, y) == IF x < y THEN x ELSE y
Max(x, y) == IF x > y THEN x ELSE y

\* Python's normalisation of a slice bound i for a sequence of length n
PyIdx(i, n) == IF i < 0 THEN Max(i + n, 0) ELSE Min(i, n)

\* the 1-based positions seq[a:b] selects in a sequence of length n
PySlice(a, b, n) ==
  LET lo == PyIdx(a, n)
      hi == PyIdx(b, n)
  IN [k \in 1..Max(hi - lo, 0) |-> lo + k]

\* the arguments of ConvnetBuilder: ps is None, a float or a list; xtra_fc is
\* None or a list
PsNone == [tag |-> "None", v |-> 0, l |-> <<>>]
PsFloat(p) == [tag |-> "float", v |-> p, l |-> <<>>]
PsList(l) == [tag |-> "list", v |-> 0, l |-> l]
FcNone == [tag |-> "None", l |-> <<>>]
FcList(l) == [tag |-> "list", l |-> l]

\* Python's truth value of ps and of xtra_fc
PsTruthy(ps) ==
  CASE ps.tag = "None" -> FALSE
    [] ps.tag = "float" -> ps.v # 0
    [] ps.tag = "list" -> ps.l # <<>>
FcTruthy(x) == x.tag = "list" /\ x.l # <<>>

----------------------------------------------------------------------------
(* ConvnetBuilder *)

\* cut_model(m, cut): the first cut children of the backbone, the whole
\* backbone as one layer when cut is 0
cut_model(nch, cut) ==
  IF cut # 0
  THEN [k \in 1..PyIdx(cut, nch) |-> Layer("backbone", k, 0)]
  ELSE <<Layer("backbone_whole", 0, 0)>>

create_fc_layer(ni, nf, p, actn) ==
  <<Layer("BatchNorm1d", ni, 0)>>
  \o (IF p # 0 THEN <<Layer("Dropout", p, 0)>> ELSE <<>>)
  \o <<Layer("Linear", ni, nf)>>
  \o (IF actn # "None" THEN <<Layer(actn, 0, 0)>> ELSE <<>>)

\* the loop of get_fc_layers over xtra_fc from index i on: the modules it
\* appends and the width ni it leaves
RECURSIVE fc_loop_stale(_, _, _)
fc_loop_stale(self, i, ni) ==
  IF i > Len(self.xtra_fc)
  THEN [res |-> <<>>, ni |-> ni]
  ELSE LET rest == fc_loop_stale(self, i + 1, ni)
       IN [res |-> create_fc_layer(ni, self.xtra_fc[i], self.ps[i], "ReLU") \o rest.res,
           ni |-> rest.ni]

RECURSIVE fc_loop(_, _, _)
fc_loop(self, i, ni) ==
  IF i > Len(self.xtra_fc)
  THEN [res |-> <<>>, ni |-> ni]
  ELSE LET rest == fc_loop(self, i + 1, self.xtra_fc[i])
       IN [res |-> create_fc_layer(ni, self.xtra_fc[i], self.ps[i], "ReLU") \o rest.res,
           ni |-> rest.ni]

final_actn(is_multi, is_reg) ==
  IF is_reg THEN "None" ELSE IF is_multi THEN "Sigmoid" ELSE "LogSoftmax"

get_fc_layers(self) ==
  LET loop == fc_loop(self, 1, self.nf)
  IN loop.res \o create_fc_layer(loop.ni, self.c, self.ps[Len(self.ps)],
                                 final_actn(self.is_multi, self.is_reg))

\* ConvnetBuilder.__init__ up to the call of get_fc_layers; nch and w are the
\* number of children of f(True) and the width num_features finds in it
BuilderFields(a) ==
  LET ps0 == IF PsTruthy(a.ps) THEN a.ps ELSE PsList(<<25, 50>>)
      xf == IF FcTruthy(a.xtra_fc) THEN a.xtra_fc.l ELSE <<512>>
      cut == model_meta[a.f][1] - a.xtra_cut
      layers == cut_model(a.nch, cut)
      n_fc == Len(xf) + 1
  IN [f |-> a.f, c |-> a.c, is_multi |-> a.is_multi, is_reg |-> a.is_reg,
      xtra_cut |-> a.xtra_cut,
      ps |-> IF ps0.tag # "list" THEN [i \in 1..n_fc |-> ps0.v] ELSE ps0.l,
      xtra_fc |-> xf,
      lr_cut |-> model_meta[a.f][2],
      nf |-> IF a.f \in DOMAIN model_features THEN model_features[a.f] ELSE a.w * 2,
      top_model |-> layers \o <<Layer("AdaptiveConcatPool2d", 0, 0), Layer("Flatten", 0, 0)>>]

\* ps[i] in get_fc_layers raises IndexError when ps is shorter than xtra_fc
BuilderRaises(a) == Len(BuilderFields(a).ps) < Len(BuilderFields(a).xtra_fc)

ConvnetBuilder(a) ==
  LET self == BuilderFields(a)
      fc_layers == get_fc_layers(self)
  IN [f |-> self.f, c |-> self.c, is_multi |-> self.is_multi, is_reg |-> self.is_reg,
      xtra_cut |-> self.xtra_cut, ps |-> self.ps, xtra_fc |-> self.xtra_fc,
      lr_cut |-> self.lr_cut, nf |-> self.nf, top_model |-> self.top_model,
      fc_model |-> fc_layers, n_fc |-> Len(fc_layers),
      model |-> self.top_model \o fc_layers]

NoModels ==
  [f |-> "None", c |-> 0, is_multi |-> FALSE, is_reg |-> FALSE, xtra_cut |-> 0,
   ps |-> <<>>, xtra_fc |-> <<>>, lr_cut |-> 0, nf |-> 0, top_model |-> <<>>,
   fc_model |-> <<>>, n_fc |-> 0, model |-> <<>>]

\* ConvnetBuilder.name
name(m) == <<m.f, m.xtra_cut>>

\* split_by_idxs(seq, idxs) over the positions of a sequence of length n
RECURSIVE split_by_idxs(_, _, _)
split_by_idxs(n, idxs, prev) ==
  IF idxs = <<>>
  THEN <<PySlice(prev, n, n)>>
  ELSE <<PySlice(prev, Head(idxs), n)>> \o split_by_idxs(n, Tail(idxs), Head(idxs))

\* ConvnetBuilder.get_layer_groups: groups of positions of the full model
\* (the children of fc_model are the last n_fc children of model)
get_layer_groups(m, do_fc) ==
  IF do_fc
  THEN LET off == Len(m.model) - Len(m.fc_model)
           g == split_by_idxs(Len(m.fc_model), <<>>, 0)
       IN [j \in 1..Len(g) |-> [k \in 1..Len(g[j]) |-> off + g[j][k]]]
  ELSE split_by_idxs(Len(m.model), <<m.lr_cut, -m.n_fc>>, 0)

----------------------------------------------------------------------------
(* Datasets and the on-disk arrays *)

\* an image dataset: sz is the image size, ntrn/nval/ntest the number of
\* examples of each partition (ntest = 0: no test loader); id names the
\* examples and labels of the directory, which do not depend on sz
ImgData(sz, ntrn, nval, ntest, is_multi, is_reg, c) ==
  [kind |-> "img", id |-> <<ntrn, nval, ntest>>, sz |-> sz,
   ntrn |-> ntrn, nval |-> nval, ntest |-> ntest,
   is_multi |-> is_multi, is_reg |-> is_reg, c |-> c,
   x |-> <<"None", 0, 0>>]

\* the attribute is not set
NoData ==
  [kind |-> "None", id |-> <<0, 0, 0>>, sz |-> 0, ntrn |-> 0, nval |-> 0,
   ntest |-> 0, is_multi |-> FALSE, is_reg |-> FALSE, c |-> 0,
   x |-> <<"None", 0, 0>>]

NoKey == <<"None", 0, 0>>

EmptyArrays == [trn |-> <<>>, val |-> <<>>, test |-> <<>>]

Put(dk, k, v) == [y \in DOMAIN dk \cup {k} |-> IF y = k THEN v ELSE dk[y]]

\* predict_to_bcolz(m, dl, arr): one row appended per example of the loader,
\* in order; the run stops after budget rows when it is interrupted
predict_to_bcolz(arr, d, part, n, budget) ==
  arr \o [i \in 1..Min(n, budget) |-> [src |-> d.kind, part |-> part, i |-> i]]

\* ImageClassifierData.from_arrays over the arrays of key k and the labels
\* of d: its sz is the width of an activation row
from_arrays(m, d, k, a) ==
  [kind |-> "fc", id |-> d.id, sz |-> m.nf,
   ntrn |-> d.ntrn, nval |-> d.nval,
   ntest |-> IF d.ntest > 0 THEN Len(a.test) ELSE 0,
   is_multi |-> d.is_multi, is_reg |-> d.is_reg, c |-> d.c, x |-> k]

----------------------------------------------------------------------------
(* ConvLearner *)

MetricsNone == [isNone |-> TRUE, l |-> <<>>]
MetricsList(l) == [isNone |-> FALSE, l |-> l]

\* the properties ConvLearner.model and ConvLearner.data
model_flipped == IF precompute THEN "model" ELSE "fc_model"

model == IF precompute THEN "fc_model" ELSE "model"

data == IF precompute THEN fc_data ELSE data_

\* the loss and the default metrics ConvLearner.__init__ selects
crit_swapped(d) ==
  IF d.is_reg THEN "l1_loss"
  ELSE IF d.is_multi THEN "nll_loss" ELSE "binary_cross_entropy"

select_crit(d) ==
  IF d.is_reg THEN "l1_loss"
  ELSE IF d.is_multi THEN "binary_cross_entropy" ELSE "nll_loss"

select_metrics_always(d, given) ==
  IF given.isNone
  THEN MetricsList(IF d.is_multi THEN <<"accuracy_multi">> ELSE <<"accuracy">>)
  ELSE given

select_metrics(d, given) ==
  IF d.is_reg THEN given
  ELSE IF given.isNone
       THEN MetricsList(IF d.is_multi THEN <<"accuracy_multi">> ELSE <<"accuracy">>)
       ELSE given

Key(m, d) == <<name(m)[1], name(m)[2], d.sz>>

get_activations_recreate(dk, m, d, force) ==
  [disk |-> Put(dk, Key(m, d), EmptyArrays), activations |-> Key(m, d)]

\* ConvLearner.get_activations: the disk and self.activations it leaves
get_activations(dk, m, d, force) ==
  IF Key(m, d) \in DOMAIN dk /\ ~force
  THEN [disk |-> dk, activations |-> Key(m, d)]
  ELSE [disk |-> Put(dk, Key(m, d), EmptyArrays), activations |-> Key(m, d)]

\* ConvLearner.save_fc1 with self.data = d; when the backbone runs, it is
\* interrupted after stop rows unless stop is the number of all examples
save_fc1(dk, m, d, old_fc, stop) ==
  LET ga == get_activations(dk, m, d, FALSE)
      k == ga.activations
      a == ga.disk[k]
      run == Len(a.trn) = 0
      total == d.ntrn + d.nval + d.ntest
      a2 == IF run
            THEN [trn |-> predict_to_bcolz(a.trn, d, "trn", d.ntrn, stop),
                  val |-> predict_to_bcolz(a.val, d, "val", d.nval, stop - d.ntrn),
                  test |-> IF d.ntest > 0
                           THEN predict_to_bcolz(a.test, d, "test", d.ntest,
                                                 stop - d.ntrn - d.nval)
                           ELSE a.test]
            ELSE a
      ok == ~run \/ stop = total
  IN [disk |-> Put(ga.disk, k, a2), activations |-> k, ran |-> run, ok |-> ok,
      fc_data |-> IF ok THEN from_arrays(m, d, k, a2) ELSE old_fc]

\* the union of the positions of groups c[from..]
RECURSIVE GroupUnion(_, _)
GroupUnion(c, from) ==
  IF from > Len(c) THEN {}
  ELSE {c[from][k] : k \in 1..Len(c[from])} \cup GroupUnion(c, from + 1)

\* Learner.freeze_to(n) on the groups of ConvLearner.get_layer_groups
freeze_to(tr, m, pre, n) ==
  LET c == get_layer_groups(m, pre)
  IN (tr \ GroupUnion(c, 1)) \cup GroupUnion(c, PyIdx(n, Len(c)) + 1)

unfreeze(tr, m, pre) == freeze_to(tr, m, pre, 0)

freeze_to_first(tr, m, pre) == freeze_to(tr, m, pre, 0)

freeze(tr, m, pre) == freeze_to(tr, m, pre, -1)

----------------------------------------------------------------------------
(* Inputs *)

PsArgs == {PsNone, PsFloat(0), PsFloat(50), PsList(<<>>), PsList(<<0, 50>>),
           PsList(<<10, 0, 30>>)}
XtraFcArgs == {FcNone, FcList(<<>>), FcList(<<512>>), FcList(<<256, 128>>)}

BuilderArgs ==
  [f : Backbones, c : Classes, is_multi : BOOLEAN, is_reg : BOOLEAN,
   ps : PsArgs, xtra_fc : XtraFcArgs, xtra_cut : 0..MaxXtraCut,
   nch : ChildCounts, w : InferredWidths]

NoArgs ==
  [f |-> "None", c |-> 0, is_multi |-> FALSE, is_reg |-> FALSE, ps |-> PsNone,
   xtra_fc |-> FcNone, xtra_cut |-> 0, nch |-> 0, w |-> 0]

Sizes == {224, 299}

\* one image directory read at either size, before and after a test set was
\* added to it; every dataset has the same path, so tmp_path is the same in
\* every session and the key of an array is (name, xtra_cut, sz)
CacheDatasets ==
  {ImgData(sz, MaxTrn, 1, ntest, FALSE, FALSE, 2) : sz \in Sizes, ntest \in {0, MaxTest}}
CacheArchs == {"resnet34"}

\* every task type
TaskDatasets ==
  {ImgData(224, MaxTrn, 1, ntest, mu, re, c) :
     ntest \in {0, MaxTest}, mu \in BOOLEAN, re \in BOOLEAN, c \in {MaxClasses}}
MetricArgs == {MetricsNone, MetricsList(<<>>), MetricsList(<<"f2">>)}

\* what the last operation did: ran: it ran the backbone; ok: it returned
\* without an exception
NoReq == [precompute |-> FALSE, metrics |-> MetricsNone]

NoOp == [ran |-> FALSE, ok |-> TRUE]

----------------------------------------------------------------------------
(* The builder on its own *)

InitBase ==
  /\ bpc = "new" /\ models = NoModels
  /\ lgs = [do_fc |-> FALSE, groups |-> <<>>]
  /\ pc = "none" /\ req = NoReq /\ precompute = FALSE
  /\ data_ = NoData /\ fc_data = NoData /\ crit = "None"
  /\ metrics = MetricsNone /\ activations = NoKey /\ trainable = {}
  /\ disk = [k \in {} |-> EmptyArrays]
  /\ last = NoOp

InitB == args \in BuilderArgs /\ InitBase

\* ConvnetBuilder(f, c, is_multi, is_reg, ps, xtra_fc, xtra_cut)
Build ==
  /\ bpc = "new"
  /\ IF BuilderRaises(args)
     THEN bpc' = "IndexError" /\ UNCHANGED models
     ELSE bpc' = "built" /\ models' = ConvnetBuilder(args)
  /\ UNCHANGED <<args, lgs>>
  /\ UNCHANGED learnerVars

\* models.get_layer_groups(do_fc)
LayerGroups ==
  /\ bpc = "built"
  /\ \E do_fc \in BOOLEAN :
       lgs' = [do_fc |-> do_fc, groups |-> get_layer_groups(models, do_fc)]
  /\ UNCHANGED <<args, bpc, models>>
  /\ UNCHANGED learnerVars

NextB == Build \/ LayerGroups

SpecB == InitB /\ [][NextB]_vars

----------------------------------------------------------------------------
(* The learner *)

AllPositions(m) == 1..Len(m.model)
HeadPositions(m) == (Len(m.top_model) + 1)..Len(m.model)

\* ConvLearner.pretrained(f, data, precompute=p, metrics=given) up to line 84:
\* a new session; the arrays on disk stay
Pretrained(F, D, M, N, W) ==
  \E f \in F, d \in D, given \in M, p \in BOOLEAN, nch \in N, w \in W :
    LET a == [f |-> f, c |-> d.c, is_multi |-> d.is_multi, is_reg |-> d.is_reg,
              ps |-> PsNone, xtra_fc |-> FcNone, xtra_cut |-> 0,
              nch |-> nch, w |-> w]
    IN /\ args' = a
       /\ bpc' = "built"
       /\ models' = ConvnetBuilder(a)
       /\ trainable' = AllPositions(ConvnetBuilder(a))
       /\ req' = [precompute |-> p, metrics |-> given]
       /\ precompute' = FALSE
       /\ data_' = d
       /\ fc_data' = NoData
       /\ activations' = NoKey
       /\ crit' = select_crit(d)
       /\ metrics' = select_metrics(d, given)
       /\ pc' = "ctor_save"
       /\ last' = NoOp
       /\ UNCHANGED <<lgs, disk>>

\* the effect of self.save_fc1() with self.data = d
DoSaveFc1(d, stop) ==
  LET r == save_fc1(disk, models, d, fc_data, stop)
  IN /\ disk' = r.disk
     /\ activations' = r.activations
     /\ fc_data' = r.fc_data
     /\ last' = [ran |-> r.ran, ok |-> r.ok]

\* self.data raises AttributeError: precompute is set and fc_data is not
DataRaises == data.kind = "None"

\* where a backbone run over d can be interrupted: after any number of rows
\* short of all; the last value is the run that completes
Stops(d) ==
  IF Key(models, d) \in DOMAIN disk /\ Len(disk[Key(models, d)].trn) > 0
  THEN {d.ntrn + d.nval + d.ntest}
  ELSE 0..(d.ntrn + d.nval + d.ntest)

\* line 85: if precompute: self.save_fc1()
CtorSave ==
  /\ pc = "ctor_save"
  /\ IF req.precompute
     THEN \E stop \in Stops(data) :
            /\ DoSaveFc1(data, stop)
            /\ pc' = IF last'.ok THEN "ctor_freeze" ELSE "raised"
     ELSE /\ pc' = "ctor_freeze"
          /\ last' = NoOp
          /\ UNCHANGED <<disk, activations, fc_data>>
  /\ UNCHANGED <<req, precompute, data_, crit, metrics, trainable>>
  /\ UNCHANGED builderVars

\* line 86: self.freeze()
CtorFreeze ==
  /\ pc = "ctor_freeze"
  /\ trainable' = freeze(trainable, models, precompute)
  /\ pc' = "ctor_flag"
  /\ last' = NoOp
  /\ UNCHANGED <<req, precompute, data_, fc_data, crit, metrics, activations, disk>>
  /\ UNCHANGED builderVars

\* line 87: self.precompute = precompute
CtorFlag ==
  /\ pc = "ctor_flag"
  /\ precompute' = req.precompute
  /\ req' = NoReq
  /\ pc' = "ready"
  /\ last' = NoOp
  /\ UNCHANGED <<data_, fc_data, crit, metrics, activations, trainable, disk>>
  /\ UNCHANGED builderVars

\* learn.precompute = b
SetPrecompute ==
  /\ pc = "ready"
  /\ \E b \in BOOLEAN : precompute' = b
  /\ last' = NoOp
  /\ UNCHANGED <<pc, req, data_, fc_data, crit, metrics, activations, trainable, disk>>
  /\ UNCHANGED builderVars

\* learn.set_data(d): Learner.set_data stores d in data_, then save_fc1 and
\* freeze; an exception of save_fc1 ends the call before freeze
SetData(D) ==
  /\ pc = "ready"
  /\ \E d \in D :
       /\ data_' = d
       /\ LET cur == IF precompute THEN fc_data ELSE d
          IN IF cur.kind = "None"
             THEN /\ last' = [ran |-> FALSE, ok |-> FALSE]
                  /\ UNCHANGED <<disk, activations, fc_data, trainable>>
             ELSE \E stop \in Stops(cur) :
                    /\ DoSaveFc1(cur, stop)
                    /\ trainable' = IF last'.ok
                                    THEN freeze(trainable, models, precompute)
                                    ELSE trainable
  /\ UNCHANGED <<pc, req, precompute, crit, metrics>>
  /\ UNCHANGED builderVars

\* learn.save_fc1()
SaveFc1 ==
  /\ pc = "ready"
  /\ ~DataRaises
  /\ \E stop \in Stops(data) : DoSaveFc1(data, stop)
  /\ UNCHANGED <<pc, req, precompute, data_, crit, metrics, trainable>>
  /\ UNCHANGED builderVars

\* learn.get_activations(force)
GetActivations(force) ==
  /\ pc = "ready"
  /\ ~DataRaises
  /\ LET r == get_activations(disk, models, data, force)
       IN /\ disk' = r.disk
          /\ activations' = r.activations
          /\ last' = NoOp
  /\ UNCHANGED <<pc, req, precompute, data_, fc_data, crit, metrics, trainable>>
  /\ UNCHANGED builderVars

\* learn.freeze()
Freeze ==
  /\ pc = "ready"
  /\ trainable' = freeze(trainable, models, precompute)
  /\ last' = NoOp
  /\ UNCHANGED <<pc, req, precompute, data_, fc_data, crit, metrics, activations, disk>>
  /\ UNCHANGED builderVars

\* learn.unfreeze()
Unfreeze ==
  /\ pc = "ready"
  /\ trainable' = unfreeze(trainable, models, precompute)
  /\ last' = NoOp
  /\ UNCHANGED <<pc, req, precompute, data_, fc_data, crit, metrics, activations, disk>>
  /\ UNCHANGED builderVars

Init == args = NoArgs /\ InitBase

NewSession == Pretrained(CacheArchs, CacheDatasets, {MetricsNone}, {10}, {512})

Next ==
  \/ NewSession
  \/ CtorSave
  \/ CtorFreeze
  \/ CtorFlag
  \/ SetPrecompute
  \/ SetData(CacheDatasets)
  \/ SaveFc1
  \/ \E force \in BOOLEAN : GetActivations(force)

Spec == Init /\ [][Next]_vars

\* one session over every backbone and task type
FirstSession ==
  pc = "none" /\ Pretrained(Backbones, TaskDatasets, MetricArgs, ChildCounts, InferredWidths)

NextT ==
  \/ FirstSession
  \/ CtorSave
  \/ CtorFreeze
  \/ CtorFlag
  \/ SetPrecompute
  \/ Freeze
  \/ Unfreeze

SpecT == Init /\ [][NextT]_vars

----------------------------------------------------------------------------
(* Reading a head: head layer j starts at its j-th BatchNorm1d *)

HeadStarts(fc) == {k \in 1..Len(fc) : fc[k].kind = "BatchNorm1d"}
NumHeadLayers(fc) == Cardinality(HeadStarts(fc))
HeadStart(fc, j) ==
  CHOOSE k \in HeadStarts(fc) : Cardinality({t \in HeadStarts(fc) : t < k}) = j - 1
HasDropout(fc, j) == fc[HeadStart(fc, j) + 1].kind = "Dropout"
RateOf(fc, j) == IF HasDropout(fc, j) THEN fc[HeadStart(fc, j) + 1].a ELSE 0
LinearOf(fc, j) ==
  IF HasDropout(fc, j) THEN fc[HeadStart(fc, j) + 2] ELSE fc[HeadStart(fc, j) + 1]
FinalActivation(fc) ==
  IF fc[Len(fc)].kind = "Linear" THEN "None" ELSE fc[Len(fc)].kind

\* the feature width the registry gives the backbone the builder was called with
RegistryWidth ==
  IF args.f \in {"inception_4", "dn121", "dn161"}
  THEN model_features[args.f]
  ELSE 2 * args.w

Filled(k) == k \in DOMAIN disk /\ Len(disk[k].trn) > 0

InCtor == pc \in {"ctor_save", "ctor_freeze", "ctor_flag"}

----------------------------------------------------------------------------
(* Claims *)

\* C1: once the train array of a key holds rows, every save_fc1 (called
\* directly, by the constructor or by set_data) and every
\* get_activations(force=False) on that key, in this or a later session, opens
\* the existing arrays, does not run the backbone and leaves every array on
\* disk as it was.
C1_ReuseWithoutForce ==
  /\ [][(SaveFc1 \/ (CtorSave /\ req.precompute) \/ GetActivations(FALSE))
          /\ Filled(Key(models, data))
        => /\ disk' = disk
           /\ activations' = Key(models, data)
           /\ ~last'.ran /\ last'.ok]_vars
  /\ [][SetData(CacheDatasets)
          /\ (IF precompute THEN fc_data ELSE data_').kind # "None"
          /\ Filled(Key(models, IF precompute THEN fc_data ELSE data_'))
        => /\ disk' = disk
           /\ activations' = Key(models, IF precompute THEN fc_data ELSE data_')
           /\ ~last'.ran /\ last'.ok]_vars

\* a later session's constructor found the arrays filled and did not run the
\* backbone (the disk starts empty, so the first session always runs it)
C1_Witness ==
  /\ pc = "ctor_freeze" /\ req.precompute
  /\ ~last.ran /\ last.ok
  /\ Filled(activations)
  /\ fc_data.x = activations
  /\ data_.ntest > 0
  /\ Len(disk[activations].trn) = data_.ntrn
  /\ Len(disk[activations].val) = data_.nval
  /\ Len(disk[activations].test) = data_.ntest

\* C2: model is the head and data is fc_data exactly when precompute is set,
\* the full model and data_ exactly when it is not; setting the flag changes
\* neither the builder's models, nor data_, fc_data, the trainable state or
\* the disk.
C2_ToggleSwitchesViewsOnly ==
  /\ [](pc = "ready" =>
          /\ (precompute <=> model = "fc_model")
          /\ (~precompute <=> model = "model")
          /\ (precompute <=> data = fc_data)
          /\ (~precompute <=> data = data_))
  /\ [][SetPrecompute => UNCHANGED <<models, data_, fc_data, trainable, disk,
                                     activations, crit, metrics>>]_vars

\* the flag was switched off after a precomputing construction: the views
\* are the full model and data_, the cache and fc_data are still there
C2_Witness ==
  /\ pc = "ready" /\ ~precompute
  /\ fc_data.kind = "fc" /\ Filled(fc_data.x)
  /\ data = data_ /\ model = "model"
  /\ trainable = HeadPositions(models)

\* C3: the loss of the learner and the final activation of the head describe
\* the same task: regression has L1 loss and no activation, otherwise
\* multi-label has binary cross-entropy and a sigmoid, otherwise
\* negative-log-likelihood and a log-softmax.
C3_LossMatchesActivation ==
  pc # "none" =>
    LET actn == FinalActivation(models.fc_model)
    IN /\ data_.is_reg => crit = "l1_loss" /\ actn = "None"
       /\ ~data_.is_reg /\ data_.is_multi =>
            crit = "binary_cross_entropy" /\ actn = "Sigmoid"
       /\ ~data_.is_reg /\ ~data_.is_multi =>
            crit = "nll_loss" /\ actn = "LogSoftmax"

\* both flags set: regression wins in the learner and in the builder
C3_Witness ==
  /\ pc = "ready" /\ data_.is_reg /\ data_.is_multi
  /\ crit = "l1_loss" /\ FinalActivation(models.fc_model) = "None"

\* C4 as stated: with no metric supplied the metrics are the accuracy of the
\* task for every task type; a supplied list is kept.
C4_DefaultMetricEveryTask ==
  InCtor =>
    IF req.metrics.isNone
    THEN metrics = MetricsList(IF data_.is_multi THEN <<"accuracy_multi">>
                               ELSE <<"accuracy">>)
    ELSE metrics = req.metrics

\* C4 amended: with no metric supplied the metrics are the accuracy of the
\* task unless the dataset is a regression, for which they stay None; a
\* supplied list is kept.
C4_DefaultMetricUnlessRegression ==
  InCtor =>
    IF req.metrics.isNone
    THEN IF data_.is_reg
         THEN metrics.isNone
         ELSE metrics = MetricsList(IF data_.is_multi THEN <<"accuracy_multi">>
                                    ELSE <<"accuracy">>)
    ELSE metrics = req.metrics

\* a regression learner built without metrics has none
C4_Witness ==
  /\ pc = "ctor_flag" /\ data_.is_reg /\ req.metrics.isNone
  /\ metrics.isNone /\ crit = "l1_loss"

\* C5: the first head layer takes the registry's width, every later head
\* layer takes the output width of the layer before it, and the last linear
\* layer outputs c values.
C5_HeadWidthsChain ==
  bpc = "built" =>
    LET fc == models.fc_model
        n == NumHeadLayers(fc)
    IN /\ n = Len(models.xtra_fc) + 1
       /\ fc[HeadStart(fc, 1)].a = RegistryWidth
       /\ LinearOf(fc, 1).kind = "Linear"
       /\ LinearOf(fc, 1).a = RegistryWidth
       /\ \A j \in 2..n :
            /\ fc[HeadStart(fc, j)].a = LinearOf(fc, j - 1).b
            /\ LinearOf(fc, j).kind = "Linear"
            /\ LinearOf(fc, j).a = LinearOf(fc, j - 1).b
       /\ LinearOf(fc, n).b = args.c

\* a head of three layers on a backbone whose width is inferred
C5_Witness ==
  /\ bpc = "built"
  /\ args.f = "resnet50" /\ args.w = 2048
  /\ args.xtra_fc = FcList(<<256, 128>>)
  /\ NumHeadLayers(models.fc_model) = 3
  /\ models.nf = 4096

\* C6 as stated: get_layer_groups(False) gives three groups that partition
\* the children of the full model in order, the last being exactly the head;
\* get_layer_groups(True) gives one group of all head modules.
C6_GroupsPartition ==
  bpc = "built" /\ lgs.groups # <<>> =>
    LET g == lgs.groups
        n == Len(models.model)
        top == Len(models.top_model)
    IN IF lgs.do_fc
       THEN g = <<[k \in 1..(n - top) |-> top + k]>>
       ELSE /\ Len(g) = 3
            /\ g[1] \o g[2] \o g[3] = [k \in 1..n |-> k]
            /\ g[3] = [k \in 1..(n - top) |-> top + k]

\* C7 as stated: a set_data(d) that gets as far as opening arrays opens those
\* of d's key, and when it returns, fc_data is built on the arrays of d's key
\* and on d's labels.
C7_SetDataUsesNewData ==
  [][SetData(CacheDatasets)
     => /\ (last'.ran \/ last'.ok => activations' = Key(models, data_'))
        /\ (last'.ok => /\ fc_data'.x = Key(models, data_')
                        /\ fc_data'.id = data_'.id)]_vars

\* C8: the constructor caches (when asked) while the flag is false and from
\* data_, then freezes all but the head, then sets the flag; without
\* precompute it caches nothing and freezes the same.
C8_ConstructorOrder ==
  /\ [](InCtor => ~precompute)
  /\ [](pc = "ctor_save" => fc_data = NoData)
  /\ [](pc \in {"ctor_freeze", "ctor_flag"} =>
          IF req.precompute
          THEN /\ fc_data.kind = "fc"
               /\ fc_data.x = Key(models, data_)
               /\ fc_data.id = data_.id
               /\ Filled(fc_data.x)
               /\ \A i \in 1..Len(disk[fc_data.x].trn) :
                    disk[fc_data.x].trn[i].src = "img"
          ELSE fc_data = NoData /\ DOMAIN disk = {})
  /\ [](pc = "ctor_flag" => trainable = HeadPositions(models))
  /\ [][CtorFlag => /\ precompute' = req.precompute
                    /\ req.precompute => fc_data'.kind = "fc"
                    /\ trainable' = HeadPositions(models)
                    /\ pc' = "ready"]_vars

\* the constructor of a backbone that is kept whole has cached and frozen and
\* is about to set the flag
C8_Witness ==
  /\ pc = "ctor_flag" /\ req.precompute /\ ~precompute
  /\ args.f = "vgg16"
  /\ fc_data.kind = "fc"
  /\ trainable = HeadPositions(models)

\* C9 as stated: a single value p is the rate of every head layer, a list
\* with one entry per head layer gives layer i the rate ps[i], and a head
\* layer has a dropout module exactly when its rate is not 0.
C9_DropoutAsGiven ==
  bpc = "built" =>
    LET fc == models.fc_model
        n == NumHeadLayers(fc)
    IN /\ args.ps.tag = "float" =>
            \A j \in 1..n : RateOf(fc, j) = args.ps.v
                            /\ (HasDropout(fc, j) <=> args.ps.v # 0)
       /\ args.ps.tag = "list" /\ Len(args.ps.l) = n =>
            \A j \in 1..n : RateOf(fc, j) = args.ps.l[j]
                            /\ (HasDropout(fc, j) <=> args.ps.l[j] # 0)

\* C10 as stated: when the constructor's save_fc1 has returned, the arrays it
\* opened hold one row per example of the train and validation partitions of
\* the dataset, and of its test partition when it has one.
C10_OneRowPerExample ==
  pc = "ctor_freeze" /\ req.precompute =>
    /\ Len(disk[activations].trn) = data_.ntrn
    /\ Len(disk[activations].val) = data_.nval
    /\ data_.ntest > 0 => Len(disk[activations].test) = data_.ntest

====
